---- MODULE Spec2Model ----
(***************************************************************************)
(* Training-manager state machine of ml/models/train_managers:             *)
(* NNTrainManager.train / retrain / _predict, BaseTrainManager.test /      *)
(* infer / _average_tta, KerasTrainManager.train / _predict, and the       *)
(* BaseMLPredictor of ml/models/ml_models/toolbox.py.                      *)
(*                                                                         *)
(* The model manager (fit, predict, save_model, load_model, anneal_lr) and *)
(* the Metric / AverageMeter objects live outside the modelled files; the  *)
(* calls made on them are recorded, in program order, in the history       *)
(* variable `trace`.  The weights held in memory and the checkpoint on     *)
(* disk are abstracted to version numbers (`model`, `ckpt`).               *)
(***************************************************************************)
EXTENDS Integers, Sequences, FiniteSets, TLC

\* ------------------------------------------------------------- bounds
MaxEpochs == 2
MaxSamples == 4
BatchSize == 2
MaxMetrics == 2
MaxTTA == 2
MaxWindowExtra == 2
MaxCalls == 3

\* ---------------------------------------------------- program constants
\* --learning-anneal default 1.01, in hundredths
LearningAnneal == 101
\* loss_value given to every metric that is not the loss in test()
NonLossValue == 10000000

\* KerasTrainManager._predict: window n, threshold k, and the value marking an
\* unfilled buffer slot
Window == 10
Threshold == 6
Sentinel == -1000000

VARIABLES
    cfg,            \* self.cfg
    dataloaders,    \* self.dataloaders: phase -> number of samples it yields
    metrics,        \* self.metrics: phase -> sequence of [name, save_model]
    model,          \* version of the weights held by model_manager
    ckpt,           \* version of the weights stored at cfg['model_path']
    pc,             \* position of the running call
    call,           \* the running call and its arguments
    phases,         \* local `phases` of train
    epoch,          \* loop variable `epoch`
    ph,             \* position of loop variable `phase` in phases (1-based)
    i,              \* loop variable `i` (batch index, 0-based)
    pred_list,      \* local pred_list
    label_list,     \* local label_list
    best_val_pred,  \* local best_val_pred of train
    trace,          \* calls on model_manager / metrics / logger, in order
    n_calls,        \* number of calls per operation since the call started
    ret,            \* value returned by the call
    err,            \* exception that ended the call, "" when none
    meters,         \* phase -> per metric, the epochs of the values its
                    \* average_meter holds (one entry per update since reset)
    manager,        \* class of the object the calls are made on
    fitted,         \* BaseMLPredictor.fitted
    ml_model        \* BaseMLPredictor.model: state of the wrapped estimator

vars == <<cfg, dataloaders, metrics, model, ckpt, pc, call, phases, epoch, ph, i,
          pred_list, label_list, best_val_pred, trace, n_calls, ret, err, meters,
          manager, fitted, ml_model>>

\* ------------------------------------------------------------ helpers
TrainPhases == {"train", "val"}
EvalPhases == {"test", "retrain", "retrain_test", "infer"}
AllPhases == TrainPhases \cup EvalPhases

MetricNames == <<"loss", "accuracy", "recall", "f1">>

Ops == {"fit", "predict", "update", "update_best", "reset", "save_model",
        "load_model", "anneal_lr", "record_log", "logger_close", "deepcopy",
        "epoch_verbose", "criterion",
        "ml_fit", "ml_load_model", "ml_predict", "ml_save_model"}

NoCalls == [o \in Ops |-> 0]

Ev(op, phase, ep, idx, val) ==
    [op |-> op, phase |-> phase, epoch |-> ep, idx |-> idx, val |-> val]

RECURSIVE CountOps(_, _)
CountOps(evs, n) ==
    IF evs = <<>> THEN n
    ELSE CountOps(Tail(evs), [n EXCEPT ![Head(evs).op] = @ + 1])

RECURSIVE Flatten(_)
Flatten(ss) == IF ss = <<>> THEN <<>> ELSE Head(ss) \o Flatten(Tail(ss))

Min(a, b) == IF a < b THEN a ELSE b

\* len(self.dataloaders[phase]): number of batches of a loader of n samples
NumBatches(n) == (n + BatchSize - 1) \div BatchSize

\* positions (1-based) of the samples of batch b (0-based) of a loader of n samples
BatchPositions(n, b) ==
    [k \in 1..(Min((b + 1) * BatchSize, n) - b * BatchSize) |-> b * BatchSize + k]

\* the batch (inputs, labels) the loader of `phase` yields at index b
BatchInputs(phase, b) ==
    LET pos == BatchPositions(dataloaders[phase], b)
    IN  [k \in 1..Len(pos) |-> <<phase, pos[k]>>]

BatchLabels(phase, b) ==
    LET pos == BatchPositions(dataloaders[phase], b)
    IN  [k \in 1..Len(pos) |-> <<"y", phase, pos[k]>>]

\* model_manager.fit(inputs, labels, phase) -> (loss, predicts): a function of
\* the weights and the inputs; the weights change only in training mode
FitLoss(m, inputs) == <<"loss", m, inputs>>
FitPredicts(m, inputs) == [k \in 1..Len(inputs) |-> <<m, inputs[k]>>]
FitModel(m, phase) == IF phase = "train" THEN m + 1 ELSE m

\* BaseTrainManager.check_keys_from_dict
CheckKeysBugFirstOnly(must_contain_keys, dic) == must_contain_keys[1] \in DOMAIN dic

CheckKeys(must_contain_keys, dic) ==
    \A k \in 1..Len(must_contain_keys) : must_contain_keys[k] \in DOMAIN dic

\* Metric.update / average_meter.update add a value to the meter and
\* average_meter.reset() drops the values it holds
MeterAfter(ms, e) ==
    IF e.op = "update"
    THEN [ms EXCEPT ![e.phase][e.idx] = Append(@, e.epoch)]
    ELSE IF e.op = "reset" THEN [ms EXCEPT ![e.phase][e.idx] = <<>>]
    ELSE ms

\* the meters ms after the calls evs were made on them in order
RECURSIVE MetersAfter(_, _)
MetersAfter(ms, evs) ==
    IF evs = <<>> THEN ms ELSE MetersAfter(MeterAfter(ms, Head(evs)), Tail(evs))

\* the calls evs made in order on meters ms: the meters afterwards, and the calls
\* with what each reader of the meters (_record_log, deepcopy) saw
RunCalls(ms, evs) ==
    [meters |-> MetersAfter(ms, evs),
     events |-> [k \in 1..Len(evs) |->
                   IF evs[k].op \in {"record_log", "deepcopy"}
                   THEN [evs[k] EXCEPT
                           !.val = MetersAfter(ms, SubSeq(evs, 1, k - 1))[evs[k].phase]]
                   ELSE evs[k]]]

\* every meter empty
NoValues == [p \in AllPhases |-> [k \in 1..Len(metrics[p]) |-> <<>>]]

\* self.logger: _init_logger returns one only when cfg['tensorboard'] is set
HasLoggerBugAlways(c) == TRUE

HasLogger(c) == c.tensorboard

\* ------------------------------------------------- NNTrainManager.train
\* the phase list chosen from the two flags
PhasesBugOnlyValidateIgnored(with_validate, only_validate) ==
    IF with_validate THEN <<"train", "val">> ELSE <<"train">>

PhasesBugValFirst(with_validate, only_validate) ==
    IF only_validate THEN <<"val">>
    ELSE IF with_validate THEN <<"val", "train">> ELSE <<"train">>

PhaseList(with_validate, only_validate) ==
    LET first == IF with_validate THEN <<"train", "val">> ELSE <<"train">>
    IN  IF only_validate THEN <<"val">> ELSE first

\* `metric.save_model and best_flag and phase == 'val'`
ShouldSaveBugAnyPhase(metric, best_flag, phase) ==
    metric.save_model /\ best_flag

ShouldSave(metric, best_flag, phase) ==
    metric.save_model /\ best_flag /\ phase = "val"

\* `if phase == 'train'` guarding anneal_lr
ShouldAnnealBugEveryPhase(phase) == TRUE

ShouldAnneal(phase) == phase = "train"

\* the metrics that get the whole epoch-phase: self.metrics[phase][1:]
EpochMetricIdxBugAll(phase) == [k \in 1..Len(metrics[phase]) |-> k]

EpochMetricIdx(phase) == [k \in 1..(Len(metrics[phase]) - 1) |-> k + 1]

\* _update_by_epoch's loop over self.metrics[phase], metric k onwards; best[k] is
\* what metric k's average_meter.update_best() returns
RECURSIVE UpdateByEpochLoopBugNoReset(_, _, _, _)
UpdateByEpochLoopBugNoReset(phase, ep, best, k) ==
    IF k > Len(metrics[phase]) THEN <<>>
    ELSE <<Ev("update_best", phase, ep, k, best[k])>>
         \o (IF metrics[phase][k].save_model /\ best[k] /\ phase = "val"
             THEN <<Ev("save_model", phase, ep, k, model)>> ELSE <<>>)
         \o UpdateByEpochLoopBugNoReset(phase, ep, best, k + 1)

RECURSIVE UpdateByEpochLoop(_, _, _, _)
UpdateByEpochLoop(phase, ep, best, k) ==
    IF k > Len(metrics[phase]) THEN <<>>
    ELSE <<Ev("update_best", phase, ep, k, best[k])>>
         \o (IF ShouldSave(metrics[phase][k], best[k], phase)
             THEN <<Ev("save_model", phase, ep, k, model)>> ELSE <<>>)
         \o <<Ev("reset", phase, ep, k, 0)>>
         \o UpdateByEpochLoop(phase, ep, best, k + 1)

\* best_val_flag: set in the branch that saves the model
BestValFlagBugAnyBest(loop) ==
    \E k \in 1..Len(loop) : loop[k].op = "update_best" /\ loop[k].val

BestValFlag(loop) == \E k \in 1..Len(loop) : loop[k].op = "save_model"

\* _update_by_epoch(phase, learning_anneal): the calls it makes and its result
UpdateByEpoch(phase, ep, best, learning_anneal) ==
    LET loop == UpdateByEpochLoop(phase, ep, best, 1)
    IN  [events |-> loop \o (IF ShouldAnneal(phase)
                             THEN <<Ev("anneal_lr", phase, ep, 0, learning_anneal)>>
                             ELSE <<>>),
         best_val_flag |-> BestValFlag(loop)]

\* the order of the statements that end an epoch-phase (lines 116-128): the
\* epoch-wide metric updates, _record_log, _update_by_epoch, the deepcopy into
\* epoch_metrics and, after the last phase, _epoch_verbose
PhaseEndCallsBugLogAfterReset(upd, log, ube, copy, verb) ==
    upd \o ube \o log \o copy \o verb

PhaseEndCalls(upd, log, ube, copy, verb) == upd \o log \o ube \o copy \o verb

\* `if not with_validate:` guarding the save after the epoch loop
FinalSaveBugAlways(with_validate) == TRUE

FinalSaveBugNever(with_validate) == FALSE

FinalSave(with_validate) == ~with_validate

\* the log of the epoch in progress: a new epoch starts an empty one
EpochTrace == IF ph = 1 /\ i = 0 THEN <<>> ELSE trace

CallTrain ==
    /\ pc = "idle"
    /\ manager = "NNTrainManager"
    /\ \E with_validate \in BOOLEAN, only_validate \in BOOLEAN :
         LET ps == PhaseList(with_validate, only_validate) IN
         /\ call' = [op |-> "train", with_validate |-> with_validate,
                     only_validate |-> only_validate, load_best |-> FALSE,
                     phase |-> "", return_metrics |-> FALSE, model0 |-> model]
         /\ phases' = ps
         /\ IF CheckKeys(ps, dataloaders)
            THEN pc' = "train" /\ err' = ""
            ELSE pc' = "raised" /\ err' = "AssertionError"
    /\ epoch' = 0 /\ ph' = 1 /\ i' = 0
    /\ pred_list' = <<>> /\ label_list' = <<>> /\ best_val_pred' = <<>>
    /\ trace' = <<>> /\ n_calls' = NoCalls /\ ret' = <<>>
    /\ UNCHANGED <<manager, fitted, ml_model, cfg, dataloaders, metrics, model, ckpt,
                   meters>>

\* one iteration of the batch loop (lines 104-113)
TrainBatch ==
    /\ pc = "train"
    /\ epoch < cfg.epochs
    /\ i < NumBatches(dataloaders[phases[ph]])
    /\ LET phase == phases[ph]
           inputs == BatchInputs(phase, i)
           labels == BatchLabels(phase, i)
           loss == FitLoss(model, inputs)
           predicts == FitPredicts(model, inputs)
           evs == <<Ev("fit", phase, epoch, i, model),
                    Ev("update", phase, epoch, 1, <<loss, predicts, labels>>)>>
           run == RunCalls(meters, evs)
       IN  /\ model' = FitModel(model, phase)
           /\ pred_list' = (IF i = 0 THEN <<>> ELSE pred_list) \o predicts
           /\ label_list' = (IF i = 0 THEN <<>> ELSE label_list) \o labels
           /\ trace' = EpochTrace \o run.events
           /\ meters' = run.meters
           /\ n_calls' = CountOps(evs, n_calls)
    /\ i' = i + 1
    /\ UNCHANGED <<manager, fitted, ml_model, cfg, dataloaders, metrics, ckpt, pc,
                   call, phases, epoch, ph, best_val_pred, ret, err>>

\* the end of an epoch-phase (lines 115-128)
TrainPhaseEnd ==
    /\ pc = "train"
    /\ epoch < cfg.epochs
    /\ i = NumBatches(dataloaders[phases[ph]])
    /\ \E best \in [1..Len(metrics[phases[ph]]) -> BOOLEAN] :
         LET phase == phases[ph]
             preds == IF i = 0 THEN <<>> ELSE pred_list
             labels == IF i = 0 THEN <<>> ELSE label_list
             rest == EpochMetricIdx(phase)
             upd == [k \in 1..Len(rest) |->
                       Ev("update", phase, epoch, rest[k], <<0, preds, labels>>)]
             log == IF HasLogger(cfg)
                    THEN <<Ev("record_log", phase, epoch, 0, 0)>> ELSE <<>>
             ube == UpdateByEpoch(phase, epoch, best, cfg.learning_anneal)
             copy == <<Ev("deepcopy", phase, epoch, 0, 0)>>
             verb == IF ph = Len(phases)
                     THEN <<Ev("epoch_verbose", phase, epoch, 0, 0)>> ELSE <<>>
         IN  \E evs \in {PhaseEndCalls(upd, log, ube.events, copy, verb)} :
             \E run \in {RunCalls(meters, evs)} :
             /\ trace' = EpochTrace \o run.events
             /\ meters' = run.meters
             /\ n_calls' = CountOps(evs, n_calls)
             /\ ckpt' = IF \E k \in 1..Len(evs) : evs[k].op = "save_model"
                        THEN model ELSE ckpt
             /\ best_val_pred' = IF ube.best_val_flag THEN preds ELSE best_val_pred
             /\ pred_list' = preds
             /\ label_list' = labels
    /\ IF ph < Len(phases)
       THEN ph' = ph + 1 /\ epoch' = epoch
       ELSE ph' = 1 /\ epoch' = epoch + 1
    /\ i' = 0
    /\ UNCHANGED <<manager, fitted, ml_model, cfg, dataloaders, metrics, model, pc,
                   call, phases, ret, err>>

\* after the epoch loop (lines 130-136)
TrainFinish ==
    /\ pc = "train"
    /\ epoch = cfg.epochs
    /\ LET close == IF HasLogger(cfg)
                    THEN <<Ev("logger_close", "", epoch, 0, 0)>> ELSE <<>>
           save == IF FinalSave(call.with_validate)
                   THEN <<Ev("save_model", "", epoch, 0, model)>> ELSE <<>>
       IN  /\ trace' = trace \o close \o save
           /\ n_calls' = CountOps(close \o save, n_calls)
           /\ ckpt' = IF save # <<>> THEN model ELSE ckpt
    /\ ret' = <<"metrics", best_val_pred>>
    /\ pc' = "done"
    /\ UNCHANGED <<manager, fitted, ml_model, cfg, dataloaders, metrics, model, call,
                   phases, epoch, ph, i, pred_list, label_list, best_val_pred, err,
                   meters>>

\* ------------------------------------------------------ configurations
MetricLists ==
    UNION {{[k \in 1..n |-> [name |-> MetricNames[k], save_model |-> k \in S]] :
              S \in SUBSET (1..n)} : n \in 1..MaxMetrics}

\* loaders of some of the phases `keys`, each yielding one of `sizes` samples
Loaders(keys, sizes) == UNION {[D -> sizes] : D \in SUBSET keys}

\* a single partial batch, or a full batch followed by a partial one
TrainSizes == {1, BatchSize + 1}

\* the estimator a predictor subclass constructs (KNN, SGDC, SVM, NaiveBayes)
NewEstimator == [state |-> "unfitted", by |-> 0]

InitCommon ==
    /\ model = 0 /\ ckpt = -1
    /\ pc = "idle"
    /\ call = [op |-> "", with_validate |-> FALSE, only_validate |-> FALSE,
               load_best |-> FALSE, phase |-> "", return_metrics |-> FALSE,
               model0 |-> 0]
    /\ phases = <<>> /\ epoch = 0 /\ ph = 1 /\ i = 0
    /\ pred_list = <<>> /\ label_list = <<>> /\ best_val_pred = <<>>
    /\ trace = <<>> /\ n_calls = NoCalls /\ ret = <<>> /\ err = ""
    /\ fitted = FALSE /\ ml_model = NewEstimator

\* a train manager built for training: loaders for 'train' and/or 'val'
Init ==
    /\ InitCommon
    /\ \E e \in 0..MaxEpochs, tb \in BOOLEAN :
         cfg = [epochs |-> e, tta |-> 0, retrain_epochs |-> 0,
                learning_anneal |-> LearningAnneal, tensorboard |-> tb,
                return_prob |-> FALSE, task_type |-> "classify",
                model_listed |-> TRUE]
    /\ dataloaders \in Loaders(TrainPhases, TrainSizes)
    /\ \E ms \in MetricLists : metrics = [p \in AllPhases |-> ms]
    /\ meters = NoValues
    /\ manager = "NNTrainManager"

Next == CallTrain \/ TrainBatch \/ TrainPhaseEnd \/ TrainFinish

Spec == Init /\ [][Next]_vars

\* ------------------------------------------- NNTrainManager._predict
\* values model_manager.predict may give one sample
PredVals == {0, 1}

\* the label of the sample at position pos of an evaluation loader: with TTA the
\* loader passes cfg['tta'] times over the same samples in the same order
EvalLabel(n, pos) ==
    IF cfg.tta > 0 /\ n % cfg.tta = 0 THEN ((pos - 1) % (n \div cfg.tta)) + 1 ELSE pos

EvalLabels(phase, b) ==
    LET pos == BatchPositions(dataloaders[phase], b)
    IN  [k \in 1..Len(pos) |-> EvalLabel(dataloaders[phase], pos[k])]

RECURSIVE SumSeq(_)
SumSeq(xs) == IF xs = <<>> THEN 0 ELSE Head(xs) + SumSeq(Tail(xs))

\* numpy: a.reshape(rows, -1) succeeds iff rows divides a.size
ReshapeOk(size, rows) == size % rows = 0

\* numpy: a.reshape(rows, -1), row-major
Reshape(a, rows) ==
    LET cols == Len(a) \div rows
    IN  [r \in 1..rows |-> [c \in 1..cols |-> a[(r - 1) * cols + c]]]

\* numpy: m.mean(axis=0); a mean is kept as the fraction <<sum, count>>
MeanAxis0(m) ==
    [c \in 1..Len(m[1]) |-> <<SumSeq([r \in 1..Len(m) |-> m[r][c]]), Len(m)>>]

\* a plausible slip: averaging k consecutive predictions (reshape(-1, k), axis=1)
TTAPredsBugConsecutive(a, tta) ==
    [c \in 1..(Len(a) \div tta) |->
        <<SumSeq([r \in 1..tta |-> a[(c - 1) * tta + r]]), tta>>]

\* pred_list.reshape(self.cfg['tta'], -1).mean(axis=0)
TTAPreds(a, tta) == MeanAxis0(Reshape(a, tta))

TTALabelsBugAll(labels, tta) == labels

\* label_list[:label_list.shape[0] // self.cfg['tta']]
TTALabels(labels, tta) == SubSeq(labels, 1, Len(labels) \div tta)

\* `if load_best:` of test and infer
ShouldLoadBugAlways(load_best) == TRUE

ShouldLoadBugNever(load_best) == FALSE

ShouldLoad(load_best) == load_best

\* the start of test / infer: load_model when asked, then _predict's key check
EvalCall(op, load_best, phase, return_metrics) ==
    LET load == IF ShouldLoad(load_best)
                THEN <<Ev("load_model", "", 0, 0, ckpt)>> ELSE <<>>
    IN  /\ pc = "idle"
        /\ manager = "NNTrainManager"
        /\ call' = [op |-> op, with_validate |-> FALSE, only_validate |-> FALSE,
                    load_best |-> load_best, phase |-> phase,
                    return_metrics |-> return_metrics, model0 |-> model]
        /\ model' = IF ShouldLoad(load_best) THEN ckpt ELSE model
        /\ trace' = load
        /\ n_calls' = CountOps(load, NoCalls)
        /\ IF CheckKeys(<<phase>>, dataloaders)
           THEN pc' = "predict" /\ err' = ""
           ELSE pc' = "raised" /\ err' = "AssertionError"
        /\ i' = 0 /\ pred_list' = <<>> /\ label_list' = <<>> /\ ret' = <<>>
        /\ UNCHANGED <<manager, fitted, ml_model, cfg, dataloaders, metrics, ckpt,
                       phases, epoch, ph, best_val_pred, meters>>

\* BaseTrainManager.test(return_metrics, load_best, phase)
CallTest ==
    \E load_best \in BOOLEAN, return_metrics \in BOOLEAN,
       phase \in {"test", "retrain_test"} :
        EvalCall("test", load_best, phase, return_metrics)

\* BaseTrainManager.infer(load_best, phase)
CallInfer ==
    \E load_best \in BOOLEAN : EvalCall("infer", load_best, "infer", FALSE)

\* one iteration of _predict's loop (lines 70-75)
PredictBatch ==
    /\ pc = "predict"
    /\ i < NumBatches(dataloaders[call.phase])
    /\ LET labels == EvalLabels(call.phase, i) IN
       \E preds \in [1..Len(labels) -> PredVals] :
         LET evs == <<Ev("predict", call.phase, 0, i,
                         [model |-> model, preds |-> preds, labels |-> labels])>>
         IN  /\ pred_list' = pred_list \o preds
             /\ label_list' = label_list \o labels
             /\ trace' = trace \o evs
             /\ n_calls' = CountOps(evs, n_calls)
    /\ i' = i + 1
    /\ UNCHANGED <<manager, fitted, ml_model, cfg, dataloaders, metrics, model, ckpt,
                   pc, call, phases, epoch, ph, best_val_pred, ret, err, meters>>

\* the end of _predict (lines 77-81) and, for infer, of the call (line 222)
PredictEnd ==
    /\ pc = "predict"
    /\ i = NumBatches(dataloaders[call.phase])
    /\ IF cfg.tta # 0 /\ ~ReshapeOk(Len(pred_list), cfg.tta)
       THEN /\ pc' = "raised" /\ err' = "ValueError"
            /\ UNCHANGED <<pred_list, label_list, ret>>
       ELSE /\ pred_list' = IF cfg.tta # 0 THEN TTAPreds(pred_list, cfg.tta)
                            ELSE pred_list
            /\ label_list' = IF cfg.tta # 0 THEN TTALabels(label_list, cfg.tta)
                             ELSE label_list
            /\ IF call.op = "infer"
               THEN pc' = "done" /\ ret' = pred_list'
               ELSE pc' = "test_metrics" /\ ret' = ret
            /\ err' = err
    /\ UNCHANGED <<manager, fitted, ml_model, cfg, dataloaders, metrics, model, ckpt,
                   call, phases, epoch, ph, i, best_val_pred, trace, n_calls,
                   meters>>

\* ------------------------------------------------ BaseTrainManager.test
\* the metric list test() walks: self.metrics['test'], whatever `phase` is
TestMetricsKey(phase) == "test"

\* how the loss_value of one iteration is set (lines 186-198): "criterion" when
\* the criterion is evaluated, "constant" for the literal, "kept" when no branch
\* assigns it
LossValueSource(metric) ==
    IF metric.name = "loss"
    THEN IF cfg.task_type = "classify" THEN "criterion"
         ELSE IF cfg.model_listed THEN "criterion" ELSE "kept"
    ELSE "constant"

\* the loop over the metrics from metric k on; loss_value is the local's value on
\* entry (<<>> while unbound)
RECURSIVE TestMetricLoop(_, _, _)
TestMetricLoop(key, k, loss_value) ==
    IF k > Len(metrics[key]) THEN [events |-> <<>>, err |-> ""]
    ELSE LET src == LossValueSource(metrics[key][k])
             crit == IF src = "criterion"
                     THEN <<Ev("criterion", key, 0, k, <<pred_list, label_list>>)>>
                     ELSE <<>>
             lv == IF src = "criterion" THEN <<"criterion", pred_list, label_list>>
                   ELSE IF src = "constant" THEN <<NonLossValue>>
                   ELSE loss_value
         IN  IF lv = <<>>
             THEN [events |-> crit, err |-> "UnboundLocalError"]
             ELSE LET rest == TestMetricLoop(key, k + 1, lv)
                  IN  [events |-> crit
                                  \o <<Ev("update", key, 0, k,
                                          <<lv, pred_list, label_list>>),
                                       Ev("update_best", key, 0, k, 0)>>
                                  \o rest.events,
                       err |-> rest.err]

\* after _predict returned (lines 179-214); _predict gives a 1-d array, on which
\* np.argmax(pred_list, axis=1) raises AxisError
TestMetrics ==
    /\ pc = "test_metrics"
    /\ IF cfg.return_prob
       THEN /\ pc' = "raised" /\ err' = "AxisError"
            /\ UNCHANGED <<trace, n_calls, ret, meters>>
       ELSE LET loop == TestMetricLoop(TestMetricsKey(call.phase), 1, <<>>)
                run == RunCalls(meters, loop.events) IN
            /\ trace' = trace \o run.events
            /\ meters' = run.meters
            /\ n_calls' = CountOps(loop.events, n_calls)
            /\ IF loop.err # ""
               THEN pc' = "raised" /\ err' = loop.err /\ ret' = ret
               ELSE /\ pc' = "done" /\ err' = err
                    /\ ret' = IF call.return_metrics
                              THEN <<pred_list, label_list, "metrics">>
                              ELSE <<pred_list, label_list>>
    /\ UNCHANGED <<manager, fitted, ml_model, cfg, dataloaders, metrics, model, ckpt,
                   call, phases, epoch, ph, i, pred_list, label_list, best_val_pred>>

\* --------------------------------------------- NNTrainManager.retrain
\* `for metric in self.metrics: metric.add_average_meter(...)`: iterating the
\* metrics dict yields its keys, and a str has no add_average_meter
AddAverageMeters(ms) == IF DOMAIN ms = {} THEN "" ELSE "AttributeError"

\* retrain() up to the first statement that cannot complete (lines 138-144)
CallRetrain ==
    /\ pc = "idle"
    /\ manager = "NNTrainManager"
    /\ LET load == <<Ev("load_model", "", 0, 0, ckpt)>> IN
       /\ trace' = load
       /\ n_calls' = CountOps(load, NoCalls)
    /\ model' = ckpt
    /\ call' = [op |-> "retrain", with_validate |-> FALSE, only_validate |-> FALSE,
                load_best |-> FALSE, phase |-> "retrain", return_metrics |-> FALSE,
                model0 |-> model]
    /\ AddAverageMeters(metrics) # ""
    /\ pc' = "raised" /\ err' = AddAverageMeters(metrics)
    /\ UNCHANGED <<manager, fitted, ml_model, cfg, dataloaders, metrics, ckpt, phases,
                   epoch, ph, i, pred_list, label_list, best_val_pred, ret, meters>>

\* ---------------------------------------- BaseTrainManager._average_tta
\* numpy: np.zeros(shape) raises ValueError on a negative dimension
NpZerosOk(shape) == \A d \in 1..Len(shape) : shape[d] >= 0

\* _average_tta(pred_list, label_list): new_pred_list is allocated with shape
\* (-1, rows // tta) before anything is averaged
AverageTTA(preds, labels, tta) ==
    IF ~NpZerosOk(<<-1, Len(preds) \div tta>>)
    THEN [err |-> "ValueError", preds |-> <<>>, labels |-> <<>>]
    ELSE [err |-> "",
          preds |-> [j \in 1..(Len(preds) \div tta) |->
                       [c \in 1..Len(preds[1]) |->
                          TTAPreds([r \in 1..Len(preds) |-> preds[r][c]], tta)[j]]],
          labels |-> TTALabels(labels, tta)]

\* per-class predictions of one sample
ClassRows == {<<1, 0>>, <<0, 1>>}

CallAverageTTA ==
    /\ pc = "idle"
    /\ manager = "NNTrainManager"
    /\ cfg.tta > 0
    /\ \E n \in 1..(MaxSamples \div cfg.tta) :
       \E preds \in [1..(cfg.tta * n) -> ClassRows] :
         LET labels == [r \in 1..(cfg.tta * n) |-> ((r - 1) % n) + 1]
             res == AverageTTA(preds, labels, cfg.tta)
         IN  /\ pred_list' = preds
             /\ label_list' = labels
             /\ IF res.err # ""
                THEN pc' = "raised" /\ err' = res.err /\ ret' = <<>>
                ELSE pc' = "done" /\ err' = "" /\ ret' = <<res.preds, res.labels>>
    /\ call' = [op |-> "average_tta", with_validate |-> FALSE,
                only_validate |-> FALSE, load_best |-> FALSE, phase |-> "",
                return_metrics |-> FALSE, model0 |-> model]
    /\ trace' = <<>> /\ n_calls' = NoCalls
    /\ UNCHANGED <<manager, fitted, ml_model, cfg, dataloaders, metrics, model, ckpt,
                   phases, epoch, ph, i, best_val_pred, meters>>

\* the configurations test() distinguishes: return_prob, task_type and whether
\* model_type is one of 'rnn', 'cnn', 'cnn_rnn'
EvalKinds ==
    {[return_prob |-> FALSE, task_type |-> "classify", model_listed |-> TRUE],
     [return_prob |-> TRUE, task_type |-> "classify", model_listed |-> TRUE],
     [return_prob |-> FALSE, task_type |-> "regress", model_listed |-> TRUE],
     [return_prob |-> FALSE, task_type |-> "regress", model_listed |-> FALSE]}

\* a train manager built for evaluation: loaders of one size for every evaluation
\* phase, or for 'test' and 'retrain' alone
InitEval ==
    /\ InitCommon
    /\ \E t \in 0..MaxTTA, kind \in EvalKinds :
         cfg = [epochs |-> 0, tta |-> t, retrain_epochs |-> MaxEpochs,
                learning_anneal |-> LearningAnneal, tensorboard |-> FALSE,
                return_prob |-> kind.return_prob, task_type |-> kind.task_type,
                model_listed |-> kind.model_listed]
    /\ \E n \in 1..MaxSamples, D \in {EvalPhases, {"test", "retrain"}} :
         dataloaders = [p \in D |-> n]
    /\ \E n \in 1..MaxMetrics :
         metrics = [p \in AllPhases |->
                      [k \in 1..n |-> [name |-> MetricNames[k], save_model |-> k = 1]]]
    /\ meters = NoValues
    /\ manager = "NNTrainManager"

NextEval ==
    \/ CallTest \/ CallInfer \/ CallRetrain \/ CallAverageTTA
    \/ PredictBatch \/ PredictEnd \/ TestMetrics

SpecEval == InitEval /\ [][NextEval]_vars

\* ------------------------------------------------- KerasTrainManager
\* KerasTrainManager extends the BaseTrainManager of ml.models.train_managers.
\* train_manager; what it inherits (check_keys_from_dict, self.logger,
\* _record_log, _verbose, self.model) is taken to behave as in BaseTrainManager

\* `for phase in ['train', 'val']`
KerasPhases == <<"train", "val">>

\* self.model.fit(inputs, labels, phase) -> metric_values: the loss and one value
\* per compiled metric, functions of the weights and the inputs
KerasFitValues(m, inputs) ==
    [k \in 1..Len(MetricNames) |-> <<MetricNames[k], m, inputs>>]

\* `for metric, value in zip(self.metrics[phase], metric_values)`: the meter
\* updates of one batch
KerasBatchUpdates(phase, ep, values) ==
    [k \in 1..Min(Len(metrics[phase]), Len(values)) |->
       Ev("update", phase, ep, k, values[k])]

\* KerasTrainManager._update_by_epoch's loop, metric k onwards
RECURSIVE KerasUpdateByEpochLoop(_, _, _, _)
KerasUpdateByEpochLoop(phase, ep, best, k) ==
    IF k > Len(metrics[phase]) THEN <<>>
    ELSE <<Ev("update_best", phase, ep, k, best[k])>>
         \o (IF metrics[phase][k].save_model /\ best[k] /\ phase = "val"
             THEN <<Ev("save_model", phase, ep, k, model)>> ELSE <<>>)
         \o <<Ev("reset", phase, ep, k, 0)>>
         \o KerasUpdateByEpochLoop(phase, ep, best, k + 1)

\* KerasTrainManager.train(model) up to the epoch loop
KerasCallTrain ==
    /\ pc = "idle"
    /\ manager = "KerasTrainManager"
    /\ call' = [op |-> "keras_train", with_validate |-> TRUE,
                only_validate |-> FALSE, load_best |-> FALSE, phase |-> "",
                return_metrics |-> FALSE, model0 |-> model]
    /\ phases' = KerasPhases
    /\ IF CheckKeys(KerasPhases, dataloaders)
       THEN pc' = "keras_train" /\ err' = ""
       ELSE pc' = "raised" /\ err' = "AssertionError"
    /\ epoch' = 0 /\ ph' = 1 /\ i' = 0
    /\ pred_list' = <<>> /\ label_list' = <<>> /\ best_val_pred' = <<>>
    /\ trace' = <<>> /\ n_calls' = NoCalls /\ ret' = <<>>
    /\ UNCHANGED <<manager, fitted, ml_model, cfg, dataloaders, metrics, model, ckpt,
                   meters>>

\* one iteration of the batch loop (lines 79-89)
KerasTrainBatch ==
    /\ pc = "keras_train"
    /\ epoch < cfg.epochs
    /\ i < NumBatches(dataloaders[phases[ph]])
    /\ LET phase == phases[ph]
           values == KerasFitValues(model, BatchInputs(phase, i))
       IN  \E evs \in {<<Ev("fit", phase, epoch, i, model)>>
                         \o KerasBatchUpdates(phase, epoch, values)} :
           \E run \in {RunCalls(meters, evs)} :
           /\ model' = FitModel(model, phase)
           /\ trace' = EpochTrace \o run.events
           /\ meters' = run.meters
           /\ n_calls' = CountOps(evs, n_calls)
    /\ i' = i + 1
    /\ UNCHANGED <<manager, fitted, ml_model, cfg, dataloaders, metrics, ckpt, pc,
                   call, phases, epoch, ph, pred_list, label_list, best_val_pred,
                   ret, err>>

\* the end of an epoch-phase (lines 91-94)
KerasTrainPhaseEnd ==
    /\ pc = "keras_train"
    /\ epoch < cfg.epochs
    /\ i = NumBatches(dataloaders[phases[ph]])
    /\ \E best \in [1..Len(metrics[phases[ph]]) -> BOOLEAN] :
         LET phase == phases[ph]
             log == IF HasLogger(cfg)
                    THEN <<Ev("record_log", phase, epoch, 0, 0)>> ELSE <<>>
         IN  \E evs \in {log \o KerasUpdateByEpochLoop(phase, epoch, best, 1)} :
             \E run \in {RunCalls(meters, evs)} :
             /\ trace' = EpochTrace \o run.events
             /\ meters' = run.meters
             /\ n_calls' = CountOps(evs, n_calls)
             /\ ckpt' = IF \E k \in 1..Len(evs) : evs[k].op = "save_model"
                        THEN model ELSE ckpt
    /\ IF ph < Len(phases)
       THEN ph' = ph + 1 /\ epoch' = epoch
       ELSE ph' = 1 /\ epoch' = epoch + 1
    /\ i' = 0
    /\ UNCHANGED <<manager, fitted, ml_model, cfg, dataloaders, metrics, model, pc,
                   call, phases, pred_list, label_list, best_val_pred, ret, err>>

\* `return self.metrics`
KerasTrainFinish ==
    /\ pc = "keras_train"
    /\ epoch = cfg.epochs
    /\ ret' = <<"metrics">>
    /\ pc' = "done"
    /\ UNCHANGED <<manager, fitted, ml_model, cfg, dataloaders, metrics, model, ckpt,
                   call, phases, epoch, ph, i, pred_list, label_list, best_val_pred,
                   trace, n_calls, err, meters>>

\* the buffers of _predict: len(loader) * batch_size slots holding the sentinel
KerasBuffer(n) == [k \in 1..(NumBatches(n) * BatchSize) |-> Sentinel]

\* numpy: a[start:start + len(xs)] = xs (0-based start)
SliceAssign(a, start, xs) ==
    [k \in 1..Len(a) |->
       IF k > start /\ k <= start + Len(xs) THEN xs[k - start] ELSE a[k]]

\* numpy: a[~(a == sentinel)]
DropSentinel(a) == SelectSeq(a, LAMBDA x : x # Sentinel)

\* pandas: (pd.Series(xs).rolling(window=n).sum() >= k).values; the sum is NaN,
\* and the comparison False, before a full window is available
RollingAtLeastBugStrict(xs, n, k) ==
    [t \in 1..Len(xs) |-> t >= n /\ SumSeq(SubSeq(xs, t - n + 1, t)) > k]

RollingAtLeastBugShifted(xs, n, k) ==
    [t \in 1..Len(xs) |-> t > n /\ SumSeq(SubSeq(xs, t - n, t - 1)) >= k]

RollingAtLeast(xs, n, k) ==
    [t \in 1..Len(xs) |-> t >= n /\ SumSeq(SubSeq(xs, t - n + 1, t)) >= k]

\* numpy: a[n:]
DropFirst(a, n) == SubSeq(a, n + 1, Len(a))

\* the postprocessing of _predict (lines 61-69)
KerasSmooth(preds_buf, labels_buf) ==
    LET raw == DropSentinel(preds_buf)
        mask == RollingAtLeast(raw, Window, Threshold)
        preds == [t \in 1..Len(raw) |-> IF mask[t] THEN 1 ELSE 0]
    IN  <<DropFirst(preds, Window), DropFirst(DropSentinel(labels_buf), Window)>>

\* KerasTrainManager._predict(phase) up to its loop (lines 44-51)
KerasCallPredict ==
    /\ pc = "idle"
    /\ manager = "KerasTrainManager"
    /\ \E phase \in {"val", "test"} :
         /\ call' = [op |-> "keras_predict", with_validate |-> FALSE,
                     only_validate |-> FALSE, load_best |-> FALSE, phase |-> phase,
                     return_metrics |-> FALSE, model0 |-> model]
         /\ IF CheckKeys(<<phase>>, dataloaders)
            THEN /\ pc' = "keras_predict" /\ err' = ""
                 /\ pred_list' = KerasBuffer(dataloaders[phase])
                 /\ label_list' = KerasBuffer(dataloaders[phase])
            ELSE /\ pc' = "raised" /\ err' = "AssertionError"
                 /\ pred_list' = <<>> /\ label_list' = <<>>
    /\ i' = 0 /\ trace' = <<>> /\ n_calls' = NoCalls /\ ret' = <<>>
    /\ UNCHANGED <<manager, fitted, ml_model, cfg, dataloaders, metrics, model, ckpt,
                   phases, epoch, ph, best_val_pred, meters>>

\* one iteration of _predict's loop (lines 52-58); the label of a sample is its
\* position in the loader
KerasPredictBatch ==
    /\ pc = "keras_predict"
    /\ i < NumBatches(dataloaders[call.phase])
    /\ LET labels == BatchPositions(dataloaders[call.phase], i) IN
       \E preds \in [1..Len(labels) -> PredVals] :
         LET evs == <<Ev("predict", call.phase, 0, i,
                         [model |-> model, preds |-> preds, labels |-> labels])>>
         IN  /\ pred_list' = SliceAssign(pred_list, i * BatchSize, preds)
             /\ label_list' = SliceAssign(label_list, i * BatchSize, labels)
             /\ trace' = trace \o evs
             /\ n_calls' = CountOps(evs, n_calls)
    /\ i' = i + 1
    /\ UNCHANGED <<manager, fitted, ml_model, cfg, dataloaders, metrics, model, ckpt,
                   pc, call, phases, epoch, ph, best_val_pred, ret, err, meters>>

\* the postprocessing and the return (lines 60-69)
KerasPredictEnd ==
    /\ pc = "keras_predict"
    /\ i = NumBatches(dataloaders[call.phase])
    /\ ret' = KerasSmooth(pred_list, label_list)
    /\ pc' = "done"
    /\ UNCHANGED <<manager, fitted, ml_model, cfg, dataloaders, metrics, model, ckpt,
                   call, phases, epoch, ph, i, pred_list, label_list, best_val_pred,
                   trace, n_calls, err, meters>>

\* loaders long enough for the window to fill
KerasPredictSizes == {Window + k : k \in 0..MaxWindowExtra}

\* a Keras train manager built for training
InitKerasTrain ==
    /\ InitCommon
    /\ \E e \in 0..MaxEpochs, tb \in BOOLEAN :
         cfg = [epochs |-> e, tta |-> 0, retrain_epochs |-> 0,
                learning_anneal |-> LearningAnneal, tensorboard |-> tb,
                return_prob |-> FALSE, task_type |-> "classify",
                model_listed |-> TRUE]
    /\ dataloaders \in Loaders(TrainPhases, TrainSizes)
    /\ \E ms \in MetricLists : metrics = [p \in AllPhases |-> ms]
    /\ meters = NoValues
    /\ manager = "KerasTrainManager"

\* a Keras train manager built for prediction on 'test'
InitKerasPredict ==
    /\ InitCommon
    /\ cfg = [epochs |-> 0, tta |-> 0, retrain_epochs |-> 0,
              learning_anneal |-> LearningAnneal, tensorboard |-> FALSE,
              return_prob |-> FALSE, task_type |-> "classify",
              model_listed |-> TRUE]
    /\ \E n \in KerasPredictSizes : dataloaders = [p \in {"test"} |-> n]
    /\ metrics = [p \in AllPhases |->
                    <<[name |-> MetricNames[1], save_model |-> TRUE]>>]
    /\ meters = NoValues
    /\ manager = "KerasTrainManager"

InitKeras == InitKerasTrain \/ InitKerasPredict

NextKeras ==
    \/ KerasCallTrain \/ KerasTrainBatch \/ KerasTrainPhaseEnd \/ KerasTrainFinish
    \/ KerasCallPredict \/ KerasPredictBatch \/ KerasPredictEnd

SpecKeras == InitKeras /\ [][NextKeras]_vars

\* ------------------------------------------------- BaseMLPredictor
\* the methods of BaseMLPredictor; each call ends with an event of the method's
\* name carrying the exception that ended it ("" when it returned)
MLMethods == {"ml_fit", "ml_load_model", "ml_predict", "ml_save_model"}

\* calls made on the predictor so far
MLCalls == Cardinality({k \in 1..Len(trace) : trace[k].op \in MLMethods})

\* how a call of fit can end: it returns, self.model.fit raises, or it raises
\* after self.model.fit returned (predict_proba / log_loss)
FitOutcomes == {"returned", "model_fit_raised", "log_loss_raised"}

\* the estimator after self.model.fit(x, y) of call n: fitted when it returned;
\* when it raised, untouched or left in a state sklearn does not specify
EstimatorAfterFit(m, outcome, n) ==
    IF outcome = "model_fit_raised"
    THEN {m, [state |-> "unknown", by |-> n]}
    ELSE {[state |-> "fitted", by |-> n]}

\* how self.model.predict(x) can end on estimator m: "" when it returns
EstimatorPredictOutcomes(m) ==
    IF m.state \in {"fitted", "loaded"} THEN {""}
    ELSE IF m.state = "unfitted" THEN {"NotFittedError", "AttributeError"}
    ELSE {"", "NotFittedError", "AttributeError"}

MLCall(op) == [op |-> op, fitted0 |-> fitted, model0 |-> ml_model]

\* BaseMLPredictor.fit(x, y): self.fitted is set before self.model.fit is called
MLFit ==
    /\ pc = "idle" /\ manager = "BaseMLPredictor"
    /\ MLCalls < MaxCalls
    /\ \E outcome \in FitOutcomes :
       \E after \in EstimatorAfterFit(ml_model, outcome, MLCalls + 1) :
         LET e == IF outcome = "returned" THEN "" ELSE "ValueError"
             evs == <<Ev("fit", "", MLCalls + 1, 0, outcome),
                      Ev("ml_fit", "", MLCalls + 1, 0, e)>>
         IN  /\ fitted' = TRUE
             /\ ml_model' = after
             /\ err' = e
             /\ ret' = IF e = "" THEN <<"log_loss", after>> ELSE <<>>
             /\ trace' = trace \o evs
             /\ n_calls' = CountOps(evs, n_calls)
    /\ call' = MLCall("ml_fit")
    /\ UNCHANGED <<manager, cfg, dataloaders, metrics, model, ckpt, pc, phases,
                   epoch, ph, i, pred_list, label_list, best_val_pred, meters>>

\* BaseMLPredictor.load_model(fname): open or pickle.load may raise, before
\* self.model and self.fitted are assigned
MLLoadModel ==
    /\ pc = "idle" /\ manager = "BaseMLPredictor"
    /\ MLCalls < MaxCalls
    /\ \E loaded \in BOOLEAN :
         LET e == IF loaded THEN "" ELSE "OSError"
             evs == <<Ev("ml_load_model", "", MLCalls + 1, 0, e)>>
         IN  /\ fitted' = IF loaded THEN TRUE ELSE fitted
             /\ ml_model' = IF loaded THEN [state |-> "loaded", by |-> MLCalls + 1]
                            ELSE ml_model
             /\ err' = e
             /\ ret' = <<>>
             /\ trace' = trace \o evs
             /\ n_calls' = CountOps(evs, n_calls)
    /\ call' = MLCall("ml_load_model")
    /\ UNCHANGED <<manager, cfg, dataloaders, metrics, model, ckpt, pc, phases,
                   epoch, ph, i, pred_list, label_list, best_val_pred, meters>>

\* BaseMLPredictor.save_model(fname)
MLSaveModel ==
    /\ pc = "idle" /\ manager = "BaseMLPredictor"
    /\ MLCalls < MaxCalls
    /\ LET evs == <<Ev("ml_save_model", "", MLCalls + 1, 0, "")>> IN
       /\ trace' = trace \o evs
       /\ n_calls' = CountOps(evs, n_calls)
    /\ err' = "" /\ ret' = <<>>
    /\ call' = MLCall("ml_save_model")
    /\ UNCHANGED <<manager, fitted, ml_model, cfg, dataloaders, metrics, model, ckpt,
                   pc, phases, epoch, ph, i, pred_list, label_list, best_val_pred,
                   meters>>

\* BaseMLPredictor.predict(x)
MLPredict ==
    /\ pc = "idle" /\ manager = "BaseMLPredictor"
    /\ MLCalls < MaxCalls
    /\ IF ~fitted
       THEN LET evs == <<Ev("ml_predict", "", MLCalls + 1, 0, "NotFittedError")>> IN
            /\ err' = "NotFittedError" /\ ret' = <<>>
            /\ trace' = trace \o evs
            /\ n_calls' = CountOps(evs, n_calls)
       ELSE \E e \in EstimatorPredictOutcomes(ml_model) :
            LET evs == <<Ev("predict", "", MLCalls + 1, 0, ml_model),
                         Ev("ml_predict", "", MLCalls + 1, 0, e)>>
            IN  /\ err' = e
                /\ ret' = IF e = "" THEN <<"prediction", ml_model>> ELSE <<>>
                /\ trace' = trace \o evs
                /\ n_calls' = CountOps(evs, n_calls)
    /\ call' = MLCall("ml_predict")
    /\ UNCHANGED <<manager, fitted, ml_model, cfg, dataloaders, metrics, model, ckpt,
                   pc, phases, epoch, ph, i, pred_list, label_list, best_val_pred,
                   meters>>

\* a predictor just constructed
InitML ==
    /\ InitCommon
    /\ cfg = [epochs |-> 0, tta |-> 0, retrain_epochs |-> 0,
              learning_anneal |-> LearningAnneal, tensorboard |-> FALSE,
              return_prob |-> FALSE, task_type |-> "classify",
              model_listed |-> FALSE]
    /\ dataloaders = [p \in {} |-> 0]
    /\ metrics = [p \in AllPhases |-> <<>>]
    /\ meters = NoValues
    /\ manager = "BaseMLPredictor"

NextML == MLFit \/ MLLoadModel \/ MLSaveModel \/ MLPredict

SpecML == InitML /\ [][NextML]_vars

\* ------------------------------------------------- every manager
InitAll == Init \/ InitEval \/ InitKeras

NextAll == Next \/ NextEval \/ NextKeras

SpecAll == InitAll /\ [][NextAll]_vars

\* ------------------------------------------------------------- claims
InTrain == call.op = "train" /\ pc \in {"train", "done"}

FitEvents == SelectSeq(trace, LAMBDA e : e.op = "fit")

\* the epoch whose calls `trace` holds
TraceEpoch == IF trace = <<>> THEN epoch ELSE trace[1].epoch

\* C1: with with_validate=True and only_validate=False, every epoch fits all
\* 'train' batches, then all 'val' batches, each batch once and in loader order;
\* an epoch is finished before the next starts; E x (|train| + |val|) fits are
\* made in total, and train returns without raising.
C1_EpochPhaseOrder ==
    (call.op = "train" /\ call.with_validate /\ ~call.only_validate
        /\ TrainPhases \subseteq DOMAIN dataloaders)
    => LET a == NumBatches(dataloaders["train"])
           b == NumBatches(dataloaders["val"])
           fits == FitEvents
       IN  /\ pc \in {"train", "done"}
           /\ pc = "train" => \/ ENABLED TrainFinish
                            \/ ENABLED TrainBatch
                            \/ ENABLED TrainPhaseEnd
           /\ Len(fits) <= a + b
           /\ \A k \in 1..Len(fits) :
                /\ fits[k].epoch = TraceEpoch
                /\ fits[k].phase = (IF k <= a THEN "train" ELSE "val")
                /\ fits[k].idx = (IF k <= a THEN k - 1 ELSE k - 1 - a)
           /\ TraceEpoch = epoch \/ (TraceEpoch = epoch - 1 /\ ph = 1 /\ i = 0)
           /\ TraceEpoch < epoch => Len(fits) = a + b
           /\ n_calls["fit"] = TraceEpoch * (a + b) + Len(fits)
           /\ pc = "done" => /\ n_calls["fit"] = cfg.epochs * (a + b)
                             /\ epoch = cfg.epochs
                             /\ ret[1] = "metrics"

C1_Witness ==
    /\ call.op = "train" /\ call.with_validate /\ ~call.only_validate
    /\ pc = "done" /\ cfg.epochs = 2
    /\ NumBatches(dataloaders["train"]) = 2 /\ NumBatches(dataloaders["val"]) = 1
    /\ n_calls["fit"] = 6

\* C2: the phases train executes follow from the two flags alone: ['val'] when
\* only_validate, else ['train','val'] when with_validate, else ['train']; no fit
\* is made with a phase outside that list.
C2_PhasesFromFlags ==
    (call.op = "train" /\ pc # "idle")
    => LET allowed == IF call.only_validate THEN {"val"}
                      ELSE IF call.with_validate THEN {"train", "val"}
                      ELSE {"train"}
       IN  /\ {phases[k] : k \in 1..Len(phases)} = allowed
           /\ Len(phases) = Cardinality(allowed)
           /\ \A k \in 1..Len(trace) :
                trace[k].op \in {"fit", "update", "update_best", "reset"}
                => trace[k].phase \in allowed

C2_Witness ==
    /\ call.op = "train" /\ call.only_validate /\ call.with_validate
    /\ pc = "done" /\ n_calls["fit"] >= 2
    /\ \A k \in 1..Len(trace) : trace[k].op = "fit" => trace[k].phase = "val"

\* C3: inside the epoch loop save_model is called only at the end of a 'val'
\* phase and only right after a metric with save_model set returned True from
\* update_best(); never at the end of a 'train' phase.
C3_SaveOnlyOnBestVal ==
    InTrain
    => \A k \in 1..Len(trace) :
         (trace[k].op = "save_model" /\ trace[k].phase # "")
         => /\ trace[k].phase = "val"
            /\ k > 1
            /\ trace[k-1].op = "update_best"
            /\ trace[k-1].val = TRUE
            /\ trace[k-1].phase = "val"
            /\ trace[k-1].epoch = trace[k].epoch
            /\ trace[k-1].idx = trace[k].idx
            /\ metrics["val"][trace[k].idx].save_model

\* a 'val' save was made, and a 'train' metric with save_model set reached a new
\* best in the same epoch
C3_Witness ==
    /\ InTrain
    /\ \E k \in 1..Len(trace) : trace[k].op = "save_model" /\ trace[k].phase = "val"
    /\ \E k \in 1..Len(trace) :
         /\ trace[k].op = "update_best" /\ trace[k].phase = "train"
         /\ trace[k].val = TRUE /\ metrics["train"][trace[k].idx].save_model
    /\ \E k \in 1..Len(trace) :
         /\ trace[k].op = "update_best" /\ trace[k].phase = "val"
         /\ trace[k].val = TRUE /\ ~metrics["val"][trace[k].idx].save_model

\* C4: anneal_lr(cfg['learning_anneal']) is called once per epoch whose 'train'
\* phase runs, after the last 'train' batch and before the first 'val' batch of
\* that epoch, and never at the end of a 'val' phase.
C4_AnnealOncePerTrainEpoch ==
    InTrain
    => LET ann == {k \in 1..Len(trace) : trace[k].op = "anneal_lr"}
           runs == \E k \in 1..Len(phases) : phases[k] = "train"
       IN  /\ Cardinality(ann) <= 1
           /\ \A k \in ann :
                /\ trace[k].phase = "train"
                /\ trace[k].val = cfg.learning_anneal
                /\ Cardinality({j \in 1..(k-1) : trace[j].op = "fit"
                                                 /\ trace[j].phase = "train"})
                     = NumBatches(dataloaders["train"])
                /\ \A j \in 1..Len(trace) :
                     trace[j].op = "fit"
                     => IF trace[j].phase = "train" THEN j < k ELSE j > k
           /\ ~runs => n_calls["anneal_lr"] = 0
           /\ runs => n_calls["anneal_lr"] = TraceEpoch + Cardinality(ann)
           /\ (runs /\ pc = "done") => n_calls["anneal_lr"] = cfg.epochs

C4_Witness ==
    /\ InTrain /\ pc = "done" /\ cfg.epochs = 2
    /\ call.with_validate /\ ~call.only_validate
    /\ n_calls["anneal_lr"] = 2
    /\ NumBatches(dataloaders["train"]) = 2
    /\ \E k \in 1..Len(trace) : trace[k].op = "fit" /\ trace[k].phase = "val"

\* C9: within an epoch-phase the first metric is updated once per batch, right
\* after the fit, with that batch's loss, predictions and labels; every other
\* metric is updated once, after the last batch, with loss 0.0 and all predictions
\* and labels of the epoch-phase in batch order; no other phase's metric is updated.
C9_MetricAggregation ==
    InTrain
    => \A k \in 1..Len(trace) :
         LET e == trace[k]
             fp == SelectSeq(trace, LAMBDA f : f.op = "fit" /\ f.phase = e.phase)
         IN
         /\ e.op = "fit"
            => /\ k < Len(trace)
               /\ trace[k+1] =
                    Ev("update", e.phase, e.epoch, 1,
                       <<FitLoss(e.val, BatchInputs(e.phase, e.idx)),
                         FitPredicts(e.val, BatchInputs(e.phase, e.idx)),
                         BatchLabels(e.phase, e.idx)>>)
         /\ (e.op = "update" /\ e.idx = 1)
            => /\ k > 1
               /\ trace[k-1].op = "fit"
               /\ trace[k-1].phase = e.phase
         /\ (e.op = "update" /\ e.idx > 1)
            => /\ Len(fp) = NumBatches(dataloaders[e.phase])
               /\ \A j \in 1..Len(fp) : fp[j].idx = j - 1
               /\ \A j \in 1..Len(trace) :
                    (trace[j].op = "fit" /\ trace[j].phase = e.phase) => j < k
               /\ e.val =
                    <<0,
                      Flatten([j \in 1..Len(fp) |->
                                 FitPredicts(fp[j].val, BatchInputs(e.phase, j - 1))]),
                      Flatten([j \in 1..Len(fp) |-> BatchLabels(e.phase, j - 1)])>>
               /\ \A j \in 1..Len(trace) :
                    (trace[j].op = "update" /\ trace[j].phase = e.phase
                        /\ trace[j].idx = e.idx) => j = k
         /\ e.op = "update"
            => \A j \in 1..(k-1) :
                 (trace[j].op = "fit" /\ \A l \in (j+1)..(k-1) : trace[l].op # "fit")
                 => trace[j].phase = e.phase
         /\ e.op = "deepcopy"
            => \A m \in 2..Len(metrics[e.phase]) :
                 \E j \in 1..(k-1) :
                    /\ trace[j].op = "update" /\ trace[j].phase = e.phase
                    /\ trace[j].idx = m

\* both phases of an epoch ended, 'val' with two batches and a second metric
C9_Witness ==
    /\ InTrain
    /\ \E k \in 1..Len(trace) :
         /\ trace[k].op = "update" /\ trace[k].phase = "val" /\ trace[k].idx = 2
         /\ Len(trace[k].val[2]) >= 3
         /\ trace[k].epoch = 1
    /\ \E k \in 1..Len(trace) :
         /\ trace[k].op = "update" /\ trace[k].phase = "train" /\ trace[k].idx = 2
         /\ Len(trace[k].val[2]) >= 3

\* what _predict collected before averaging, from the predict calls in order
PredictEvents == SelectSeq(trace, LAMBDA e : e.op = "predict")
RawPreds == Flatten([k \in 1..Len(PredictEvents) |-> PredictEvents[k].val.preds])
RawLabels == Flatten([k \in 1..Len(PredictEvents) |-> PredictEvents[k].val.labels])

\* _predict has returned to test or infer
Predicted ==
    /\ call.op \in {"test", "infer"}
    /\ \/ pc \in {"test_metrics", "done"}
       \/ pc = "raised" /\ err \in {"AxisError", "UnboundLocalError"}

RECURSIVE StrideSum(_, _, _, _)
StrideSum(a, j, n, k) ==
    IF k = 0 THEN 0 ELSE a[j + (k - 1) * n] + StrideSum(a, j, n, k - 1)

\* C5: with cfg['tta'] = k > 0 and k*n collected predictions, _predict returns n
\* predictions, the j-th being the mean of the raw ones at j, j+n, ..., j+(k-1)n,
\* and the first n labels; with cfg['tta'] = 0 it returns the raw predictions and
\* labels unchanged, in batch order and of equal length.
C5_PredictTTA ==
    /\ (call.op \in {"test", "infer"} /\ pc = "raised" /\ err = "ValueError")
       => (cfg.tta > 0 /\ Len(RawPreds) % cfg.tta # 0)
    /\ Predicted
       => /\ \A k \in 1..Len(PredictEvents) : PredictEvents[k].idx = k - 1
          /\ Len(RawPreds) = dataloaders[call.phase]
          /\ IF cfg.tta > 0
             THEN LET n == Len(RawPreds) \div cfg.tta
                  IN  /\ Len(RawPreds) = cfg.tta * n
                      /\ Len(pred_list) = n
                      /\ \A j \in 1..n :
                           pred_list[j] = <<StrideSum(RawPreds, j, n, cfg.tta), cfg.tta>>
                      /\ label_list = [j \in 1..n |-> RawLabels[j]]
             ELSE /\ pred_list = RawPreds
                  /\ label_list = RawLabels
                  /\ Len(pred_list) = Len(label_list)
          /\ (call.op = "infer" /\ pc = "done") => ret = pred_list

\* two passes over two samples, the passes disagreeing on the first sample
C5_Witness ==
    /\ Predicted /\ cfg.tta = 2
    /\ RawPreds = <<1, 0, 0, 0>>
    /\ pred_list = <<<<1, 2>>, <<0, 2>>>>
    /\ label_list = <<1, 2>>

\* C6: _average_tta, given (k*n, C) per-class predictions and k*n labels with
\* k = cfg['tta'] > 0, returns normally the (n, C) array of the means over the k
\* passes together with the first n labels.
C6_AverageTTAReturnsMeans ==
    (call.op = "average_tta" /\ pc # "idle")
    => LET n == Len(pred_list) \div cfg.tta
       IN  /\ pc = "done"
           /\ Len(ret) = 2
           /\ Len(ret[1]) = n
           /\ \A j \in 1..n : \A c \in 1..Len(pred_list[1]) :
                ret[1][j][c] =
                  <<StrideSum([r \in 1..Len(pred_list) |-> pred_list[r][c]],
                              j, n, cfg.tta), cfg.tta>>
           /\ ret[2] = [j \in 1..n |-> label_list[j]]

\* C7: retrain() loads the best model, fits every 'retrain' batch for
\* cfg['retrain_epochs'] epochs, evaluates once on 'retrain_test' without
\* reloading, and returns the metrics without raising.
C7_RetrainCompletes ==
    (call.op = "retrain" /\ pc # "idle"
        /\ {"retrain", "retrain_test"} \subseteq DOMAIN dataloaders
        /\ {"retrain", "retrain_test"} \subseteq DOMAIN metrics)
    => /\ trace # <<>> /\ trace[1].op = "load_model"
       /\ pc # "raised"
       /\ pc = "done"
          => /\ n_calls["load_model"] = 1
             /\ n_calls["fit"]
                  = cfg.retrain_epochs * NumBatches(dataloaders["retrain"])
             /\ ret = <<"metrics">>

\* C8: test(phase='retrain_test') gives one update and one update_best to each
\* metric registered for 'retrain_test' and leaves the other phases' metrics alone.
C8_RetrainTestMetricsUpdated ==
    (call.op = "test" /\ call.phase = "retrain_test" /\ pc = "done")
    => /\ \A k \in 1..Len(trace) :
            trace[k].op \in {"update", "update_best"}
            => trace[k].phase = "retrain_test"
       /\ \A m \in 1..Len(metrics["retrain_test"]) :
            \A o \in {"update", "update_best"} :
               Cardinality({k \in 1..Len(trace) :
                              /\ trace[k].op = o /\ trace[k].idx = m
                              /\ trace[k].phase = "retrain_test"}) = 1

\* C10: test and infer call load_model exactly once, before any prediction, when
\* load_best is True, and then predict with the saved weights; with load_best
\* False they never call it and predict with the weights held in memory.
C10_LoadBestBeforePredict ==
    (call.op \in {"test", "infer"} /\ pc # "idle")
    => LET loads == {k \in 1..Len(trace) : trace[k].op = "load_model"}
       IN  /\ n_calls["load_model"] = Cardinality(loads)
           /\ IF call.load_best
              THEN /\ loads = {1}
                   /\ trace[1].val = ckpt
                   /\ \A k \in 1..Len(PredictEvents) :
                        PredictEvents[k].val.model = ckpt
              ELSE /\ loads = {}
                   /\ \A k \in 1..Len(PredictEvents) :
                        PredictEvents[k].val.model = call.model0

\* a test with load_best=True that loaded other weights and then predicted twice
C10_Witness ==
    /\ call.op = "test" /\ call.load_best /\ pc = "done"
    /\ Len(PredictEvents) >= 2
    /\ model = ckpt /\ model # call.model0

\* the predictions one pass over the 'val' loader makes with weights w
ValPreds(w) == [j \in 1..dataloaders["val"] |-> <<w, <<"val", j>>>>]

\* saves made inside the epoch loop so far
LoopSaves ==
    n_calls["save_model"]
        - (IF pc = "done" /\ FinalSave(call.with_validate) THEN 1 ELSE 0)

ValRuns == \E k \in 1..Len(phases) : phases[k] = "val"

\* C11: best_val_pred, the second value train returns, is the whole 'val'
\* prediction list of the last epoch whose 'val' phase saved the model (the list
\* made with the weights that save stored); it is empty while no 'val' phase has
\* saved, in particular when no 'val' phase runs; it never holds predictions of
\* a 'train' phase nor those of a later epoch that did not save.
C11_BestValPred ==
    InTrain
    => /\ best_val_pred = <<>> <=> LoopSaves = 0
       /\ ~ValRuns => best_val_pred = <<>>
       /\ best_val_pred # <<>>
            => /\ ValRuns
               /\ \E w \in 0..model : best_val_pred = ValPreds(w)
               /\ (pc = "train" \/ ~FinalSave(call.with_validate))
                    => best_val_pred = ValPreds(ckpt)
       /\ \A k \in 1..Len(trace) :
            (trace[k].op = "save_model" /\ trace[k].phase = "val"
                /\ \E j \in k..Len(trace) : trace[j].op = "deepcopy")
            => /\ best_val_pred = ValPreds(trace[k].val)
               /\ \A j \in 1..k : (trace[j].op = "fit" /\ trace[j].phase = "val")
                                    => trace[j].val = trace[k].val
       /\ pc = "done" => ret[2] = best_val_pred

\* train returned the 'val' predictions of its first epoch: that epoch saved, and
\* a later epoch, run with newer weights, did not
C11_Witness ==
    /\ InTrain /\ pc = "done"
    /\ call.with_validate /\ ~call.only_validate
    /\ cfg.epochs = 2 /\ dataloaders["val"] > BatchSize
    /\ n_calls["save_model"] = 1
    /\ ckpt = NumBatches(dataloaders["train"])
    /\ model = 2 * NumBatches(dataloaders["train"])
    /\ ret[2] = ValPreds(ckpt)
    /\ \E k \in 1..Len(trace) :
         trace[k].op = "update_best" /\ trace[k].phase = "train" /\ trace[k].val

\* the saves in `trace` made after the epoch loop
FinalSaves == {k \in 1..Len(trace) : trace[k].op = "save_model" /\ trace[k].phase = ""}

\* C12 as stated: with with_validate=False the model is saved exactly once, after
\* the last epoch and before train returns; with with_validate=True there is no
\* save other than the best-validation saves.
C12_SavedExactlyOnce ==
    (InTrain /\ pc = "done")
    => IF call.with_validate
       THEN FinalSaves = {}
       ELSE /\ n_calls["save_model"] = 1
            /\ FinalSaves = {Len(trace)}

\* C12 (amended): with with_validate=False train makes one save after the last
\* epoch, as its last call before returning, and that save stores the final
\* weights; it is the only save of the call when only_validate=False, while with
\* only_validate=True the best-validation saves of the 'val' phases come before
\* it. With with_validate=True no save is made after the epoch loop. No such
\* save is made while the epoch loop runs.
C12_FinalSave ==
    InTrain
    => /\ pc = "train" => FinalSaves = {}
       /\ (pc = "done" /\ call.with_validate) => FinalSaves = {}
       /\ (pc = "done" /\ ~call.with_validate)
            => /\ FinalSaves = {Len(trace)}
               /\ trace[Len(trace)] = Ev("save_model", "", cfg.epochs, 0, model)
               /\ epoch = cfg.epochs
               /\ ckpt = model
               /\ ~call.only_validate => n_calls["save_model"] = 1
               /\ n_calls["save_model"] <= 1 + cfg.epochs * Len(metrics["val"])

\* train(with_validate=False, only_validate=True) returned after a best-validation
\* save and the final save
C12_Witness ==
    /\ InTrain /\ pc = "done"
    /\ ~call.with_validate /\ call.only_validate
    /\ n_calls["save_model"] > cfg.epochs /\ cfg.epochs = 2
    /\ FinalSaves = {Len(trace)}

\* a train call of either manager, running or returned
Training ==
    /\ call.op \in {"train", "keras_train"}
    /\ pc \in {"train", "keras_train", "done"}

\* the epoch-phases of the call that have ended
PhasesEnded ==
    TraceEpoch * Len(phases) + (IF TraceEpoch < epoch THEN Len(phases) ELSE ph - 1)

\* phase number q of the epoch held in `trace` has ended
PhaseEnded(q) == TraceEpoch < epoch \/ q < ph

\* the positions in `trace` of the calls `op` made on metric k of phase p
CallsOn(op, p, k) ==
    {j \in 1..Len(trace) : trace[j].op = op /\ trace[j].phase = p /\ trace[j].idx = k}

\* C13: epoch averages never mix epochs. When an epoch-phase of
\* NNTrainManager.train or KerasTrainManager.train ends, each metric of the phase
\* has update_best called once and is then reset once, after its last update;
\* so a meter only ever holds values of the epoch-phase in progress, and every
\* meter of a phase is empty when the phase starts.
C13_MetersResetEveryEpochPhase ==
    Training
    => /\ \A q \in 1..Len(phases) : \A k \in 1..Len(metrics[phases[q]]) :
            LET p == phases[q]
                ub == CallsOn("update_best", p, k)
                rs == CallsOn("reset", p, k)
            IN  IF PhaseEnded(q)
                THEN /\ Cardinality(ub) = 1 /\ Cardinality(rs) = 1
                     /\ \A a \in ub : \A b \in rs : a < b
                     /\ \A u \in CallsOn("update", p, k) : \A a \in ub : u < a
                     /\ meters[p][k] = <<>>
                ELSE /\ ub = {} /\ rs = {}
                     /\ Len(meters[p][k]) <= (IF q = ph THEN i ELSE 0)
                     /\ \A n \in 1..Len(meters[p][k]) : meters[p][k][n] = epoch
       /\ n_calls["update_best"] = PhasesEnded * Len(metrics["train"])
       /\ n_calls["reset"] = n_calls["update_best"]

\* the second epoch's 'val' phase of NNTrainManager.train is under way: the loss
\* meter holds the values of this epoch's batches and nothing else
C13_Witness ==
    /\ Training /\ pc = "train"
    /\ epoch = 1 /\ phases = <<"train", "val">> /\ ph = 2 /\ i = 2
    /\ meters["val"][1] = <<1, 1>>
    /\ n_calls["reset"] = 3 * Len(metrics["val"])
    /\ Len(metrics["val"]) = MaxMetrics

\* the values meter k of a phase has gathered when the phase's last update was
\* made in epoch ep: one per batch for the loss, one for any other metric
EpochValues(p, k, ep) ==
    [n \in 1..(IF k = 1 THEN NumBatches(dataloaders[p]) ELSE 1) |-> ep]

\* C14: the per-epoch summary of _epoch_verbose reports the averages of the
\* epoch that just finished: every snapshot epoch_metrics[phase] is taken while
\* the meters of the phase still hold that epoch's values.
C14_SummaryHoldsEpochValues ==
    InTrain
    => \A j \in 1..Len(trace) :
         trace[j].op = "deepcopy"
         => \A k \in 1..Len(metrics[trace[j].phase]) :
              trace[j].val[k] = EpochValues(trace[j].phase, k, trace[j].epoch)

\* C15: with a logger, train records each (phase, epoch) once, after the last
\* metric update of the epoch-phase and before any of its meters is reset, so
\* what is recorded are that epoch's values; the logger is closed once, after
\* the last epoch; without a logger neither call is made.
C15_LoggerRecordsEachEpochPhase ==
    InTrain
    => /\ n_calls["record_log"] = (IF cfg.tensorboard THEN PhasesEnded ELSE 0)
       /\ n_calls["logger_close"] = (IF cfg.tensorboard /\ pc = "done" THEN 1 ELSE 0)
       /\ \A j \in 1..Len(trace) :
            /\ trace[j].op = "record_log"
                 => /\ cfg.tensorboard
                    /\ \A n \in 1..Len(trace) :
                         (n # j /\ trace[n].op = "record_log")
                         => trace[n].phase # trace[j].phase
                    /\ \A n \in 1..Len(trace) :
                         (trace[n].phase = trace[j].phase
                             /\ trace[n].op \in {"fit", "update"}) => n < j
                    /\ \A n \in 1..Len(trace) :
                         (trace[n].phase = trace[j].phase
                             /\ trace[n].op \in {"update_best", "reset"}) => j < n
                    /\ \A k \in 1..Len(metrics[trace[j].phase]) :
                         trace[j].val[k]
                           = EpochValues(trace[j].phase, k, trace[j].epoch)
            /\ trace[j].op = "logger_close"
                 => /\ cfg.tensorboard /\ pc = "done" /\ epoch = cfg.epochs
                    /\ \A n \in 1..Len(trace) :
                         trace[n].op = "logger_close" => n = j
                    /\ \A n \in (j + 1)..Len(trace) :
                         trace[n].op = "save_model" /\ trace[n].phase = ""

\* train with a logger returned after two epochs of 'train' and 'val': four
\* records and one close
C15_Witness ==
    /\ InTrain /\ pc = "done" /\ cfg.tensorboard
    /\ cfg.epochs = 2 /\ Len(phases) = 2
    /\ n_calls["record_log"] = 4 /\ n_calls["logger_close"] = 1
    /\ Len(metrics["train"]) = MaxMetrics
    /\ dataloaders["train"] > BatchSize

\* C16: in test(), whatever the configuration, every metric of the evaluated
\* list receives one update, whose loss_value was assigned in the same loop
\* iteration (the criterion's value for the metric named 'loss', the constant
\* 10000000 for any other), followed by one update_best.
C16_LossValueAssignedEachIteration ==
    (call.op = "test" /\ ~cfg.return_prob
        /\ (pc = "done" \/ (pc = "raised" /\ err \notin {"AssertionError", "ValueError"})))
    => LET key == TestMetricsKey(call.phase) IN
       \A k \in 1..Len(metrics[key]) :
         \E j \in 1..(Len(trace) - 1) :
           /\ trace[j].op = "update" /\ trace[j].idx = k
           /\ trace[j].val[1] = (IF metrics[key][k].name = "loss"
                                 THEN <<"criterion", pred_list, label_list>>
                                 ELSE <<NonLossValue>>)
           /\ trace[j + 1].op = "update_best" /\ trace[j + 1].idx = k
           /\ \A n \in 1..Len(trace) :
                (trace[n].op = "update" /\ trace[n].idx = k) => n = j

\* C18: missing dataloaders are rejected before any work. When the dataloaders
\* dict lacks a phase the call needs, NNTrainManager.train raises AssertionError
\* with no batch fitted, no metric updated, no anneal and no save made, and
\* _predict (reached through test or infer) raises AssertionError with no
\* prediction computed; with every needed loader present neither raises it.
C18_MissingLoaderRejectedFirst ==
    /\ (manager = "NNTrainManager" /\ call.op = "train")
         => IF \E k \in 1..Len(phases) : phases[k] \notin DOMAIN dataloaders
            THEN /\ pc = "raised" /\ err = "AssertionError"
                 /\ trace = <<>> /\ n_calls = NoCalls
                 /\ model = call.model0 /\ ckpt = -1
                 /\ meters = NoValues
                 /\ ret = <<>>
            ELSE pc \in {"train", "done"} /\ err = ""
    /\ (manager = "NNTrainManager" /\ call.op \in {"test", "infer"})
         => IF call.phase \notin DOMAIN dataloaders
            THEN /\ pc = "raised" /\ err = "AssertionError"
                 /\ n_calls["predict"] = 0
                 /\ pred_list = <<>> /\ label_list = <<>>
                 /\ meters = NoValues
                 /\ ret = <<>>
            ELSE err # "AssertionError"

\* train(with_validate=True) was called on a manager that has a 'train' loader
\* but no 'val' loader, with epochs to run, and raised
C18_Witness ==
    /\ manager = "NNTrainManager" /\ call.op = "train"
    /\ phases = <<"train", "val">>
    /\ DOMAIN dataloaders = {"train"}
    /\ cfg.epochs = MaxEpochs
    /\ pc = "raised" /\ err = "AssertionError"

\* the number of ones among raw predictions t-9..t (positions counted from 0)
WindowOnes(raw, t) == Cardinality({u \in (t - 9)..t : raw[u + 1] = 1})

\* C19: KerasTrainManager._predict smooths with a sliding window (n=10, k=6).
\* For N >= 10 raw 0/1 predictions collected in loader order it returns N-10
\* predictions and N-10 labels; the prediction for original position t
\* (10 <= t < N) is 1 iff at least 6 of the raw predictions at t-9..t are 1, and
\* the labels are the original labels at positions 10..N-1.
C19_KerasSlidingWindow ==
    (call.op = "keras_predict" /\ pc = "done" /\ dataloaders[call.phase] >= 10)
    => LET N == dataloaders[call.phase] IN
       /\ Len(RawPreds) = N
       /\ Len(ret[1]) = N - 10
       /\ Len(ret[2]) = N - 10
       /\ \A t \in 10..(N - 1) :
            /\ ret[1][t - 9] = (IF WindowOnes(RawPreds, t) >= 6 THEN 1 ELSE 0)
            /\ ret[2][t - 9] = RawLabels[t + 1]

\* twelve predictions, the last batch of the loader partial or not: the window
\* ending at position 10 holds six ones, the one ending at 11 five
C19_Witness ==
    /\ call.op = "keras_predict" /\ pc = "done"
    /\ dataloaders[call.phase] = 12
    /\ WindowOnes(RawPreds, 10) = 6
    /\ WindowOnes(RawPreds, 11) = 5
    /\ ret[1] = <<1, 0>>
    /\ ret[2] = <<11, 12>>

\* a fit or load_model that completed came before the call just made
HoldsModel ==
    \E k \in 1..Len(trace) :
      /\ trace[k].op \in {"ml_fit", "ml_load_model"}
      /\ trace[k].val = ""
      /\ trace[k].epoch < MLCalls

\* C17: predict raises NotFittedError exactly when the predictor holds no
\* successfully fitted or loaded model. Without one, predict raises it without
\* calling the estimator; after a fit or load_model that completed, predict
\* returns the estimator's prediction; a fit or load_model that raised leaves
\* the instance as it was (fitted flag and model).
C17_NotFittedExactlyWhenNoModel ==
    manager = "BaseMLPredictor"
    => /\ call.op = "ml_predict"
            => IF HoldsModel
               THEN err = "" /\ ret = <<"prediction", ml_model>>
               ELSE /\ err = "NotFittedError"
                    /\ \A k \in 1..Len(trace) :
                         trace[k].op = "predict" => trace[k].epoch < MLCalls
       /\ (call.op \in {"ml_fit", "ml_load_model"} /\ err # "")
            => fitted = call.fitted0 /\ ml_model = call.model0
====
